---- MODULE Spec2Model ----
(***************************************************************************)
(* Model of the BAR community map portal backend (src/backend): the        *)
(* catalog store (table maps), the rating ledger (table ratings), the      *)
(* rating aggregator update_map_rating_stats, the download counter and     *)
(* the catalog query list_maps.                                            *)
(*                                                                         *)
(* Every request works on its own SQLAlchemy session (database.get_db),    *)
(* whose statements run against PostgreSQL at its default isolation level  *)
(* (read committed): each SELECT sees what is committed when it runs, and   *)
(* db.commit() flushes the session's pending INSERT/UPDATE and commits.     *)
(* A handler is therefore a sequence of steps, one per statement that      *)
(* reads or writes the shared tables; steps of different requests          *)
(* interleave when the service runs more than one worker.                   *)
(*                                                                         *)
(* average_rating is kept in hundredths (4.0 is 400): round(x, 2) yields a  *)
(* multiple of 0.01.  Text is a sequence of character codes.                *)
(***************************************************************************)
EXTENDS Integers, Sequences, FiniteSets, TLC

(***************************************************************************)
(* Bounds of the model.                                                    *)
(***************************************************************************)
\* maps that can be uploaded
MaxMaps == 3
\* rating submissions and downloads that can be started
MaxWrites == 3
MaxComments == 2

\* request handlers that can run at the same time
Workers == {1, 2}
\* registered users (auth.get_current_user yields one of them)
Users == {1, 2, 3}

(***************************************************************************)
(* Program constants.                                                      *)
(***************************************************************************)
\* schemas.RatingBase: rating: int = Field(..., ge=1, le=5)
MinRating == 1
MaxRating == 5
RatingValues == MinRating..MaxRating

\* Python None: no row from .first(), an optional parameter left out
None == -1
\* None where the value is a str kept as a string, and where it is text
NoneStr == "<None>"
NoText == <<-1>>

VARIABLES
    maps,      \* table maps: sequence of rows, a row's id is its index
    ratings,   \* table ratings: ratings[<<u, m>>] is the sequence of the
               \* rating values of the rows with user_id u and map_id m, in
               \* the order of their insertion; <<u, m, k>> names the k-th
    pc,        \* pc[w]: the statement worker w's request executes next
    req,       \* req[w]: the locals of worker w's request (its session)
    served,    \* served[m]: FileResponses returned by download_map for map m
    writes,    \* rating submissions and downloads started so far
    resp,      \* the last response of list_maps to the client
    walk,      \* the client paging through list_maps: the pages it got so far
    deleted,   \* ids of the maps whose rows are no longer in table maps
    comments,  \* table comments: sequence of rows, a row's id is its index
    exchange   \* the configuration the generator's export/import is passing

\* what the requests on maps and ratings do not touch
aside == <<deleted, comments, exchange>>

vars == <<maps, ratings, pc, req, served, writes, resp, walk, aside>>

(***************************************************************************)
(* Helpers.                                                                *)
(***************************************************************************)
MapIds == 1..Len(maps)
\* map ids a request may name: the maps there can be, and one beyond
AskedMapIds == 1..(MaxMaps + 1)

\* the rows of table ratings with user_id u and map_id m
RowsOf(u, m) == {<<u, m, k>> : k \in 1..Len(ratings[<<u, m>>])}
\* the rating column of row i
RowValue(i) == ratings[<<i[1], i[2]>>][i[3]]
\* no row: what .first() returns when nothing matches
NoRow == <<>>

\* Python round(total / n, 2), in hundredths: the nearest hundredth, a tie
\* going to the even one
Round2(total, n) ==
    LET q == (100 * total) \div n
        r == (100 * total) % n
    IN  IF 2 * r < n THEN q
        ELSE IF 2 * r > n THEN q + 1
        ELSE IF q % 2 = 0 THEN q ELSE q + 1

\* db.query(Rating).filter(Rating.map_id == m).all(), as the set of rows
RatingsOfMap(m) == UNION {RowsOf(u, m) : u \in Users}

\* db.query(Rating).filter(Rating.user_id == u, Rating.map_id == m)
RatingsOfUserMap(u, m) == RowsOf(u, m)

\* dict.get(key, default) on a parsed JSON object
Get(d, k, default) == IF k \in DOMAIN d THEN d[k] ELSE default

\* The client's view of the catalog (resp, walk) is what list_maps answered
\* from the catalog as it is now: a step of a request that writes drops it.
NoResp == [status |-> 0]
NoWalk == [page |-> 0]
ClientForgets == resp' = NoResp /\ walk' = NoWalk

\* nothing exported yet
NoExchange == [stage |-> "none"]

\* a request's locals before it has read anything
IdleReq == [op |-> "none", user |-> None, map |-> None, value |-> None,
            existing |-> NoRow, branch |-> "none", loaded |-> None,
            count |-> 0, total |-> 0]

(***************************************************************************)
(* Upload (routes/maps.py upload_map).  The form's generation_params is a  *)
(* parsed JSON object; a key it lacks takes the handler's default.          *)
(***************************************************************************)
NewMap(u, form) ==
    [name           |-> form.name,
     description    |-> form.description,
     author         |-> form.author,
     creator_id     |-> u,
     size           |-> Get(form.generation_data, "size", 1024),
     terrain_type   |-> Get(form.generation_data, "terrain_type", "continental"),
     player_count   |-> Get(form.generation_data, "player_count", 4),
     created_at     |-> Len(maps) + 1,
     download_count |-> 0,
     average_rating |-> 0,
     rating_count   |-> 0]

upload_map(u, form) ==
    /\ Len(maps) < MaxMaps
    /\ maps' = Append(maps, NewMap(u, form))
    /\ served' = Append(served, 0)
    /\ UNCHANGED <<ratings, pc, req, writes, aside>>
    /\ ClientForgets

(***************************************************************************)
(* submit_rating (routes/ratings.py) and the aggregator                    *)
(* update_map_rating_stats (routes/maps.py), statement by statement.        *)
(***************************************************************************)
\* every map id taken for the id of a map
MapFoundAlways(m) == TRUE

\* lines 77-78: db.query(Map).filter(Map.id == map_id).first() yields a row
MapFound(m) == m \in MapIds \ deleted

\* the map of worker w's request was deleted after the request looked it up
Gone(w) == req[w].map \in deleted

\* a rating of any magnitude let through
ValidRatingNoMax(v) == v >= MinRating

\* line 49, rating_data: RatingCreate: FastAPI validates the body against
\* schemas.RatingBase (ge=1, le=5) before it calls the handler, and answers
\* 422 when it fails
ValidRating(v) == v >= MinRating /\ v <= MaxRating

\* lines 77-82: the map is looked up, 404 when there is no such map
SubmitFindMap(w, u, m, v) ==
    /\ pc[w] = "idle"
    /\ writes < MaxWrites
    /\ writes' = writes + 1
    /\ IF ~ValidRating(v)
       THEN /\ pc' = pc
            /\ req' = [req EXCEPT ![w] = [IdleReq EXCEPT !.op = "422",
                           !.user = u, !.map = m, !.value = v]]
       ELSE IF MapFound(m)
       THEN /\ pc' = [pc EXCEPT ![w] = "rate_lookup"]
            /\ req' = [req EXCEPT ![w] = [IdleReq EXCEPT !.op = "rate",
                           !.user = u, !.map = m, !.value = v]]
       ELSE /\ pc' = pc
            /\ req' = [req EXCEPT ![w] = [IdleReq EXCEPT !.op = "404",
                           !.user = u, !.map = m, !.value = v]]
    /\ UNCHANGED <<maps, ratings, served, aside>>
    /\ ClientForgets

\* lines 85-88: existing_rating = db.query(Rating).filter(user, map).first();
\* the query has no ORDER BY: with several matching rows any of them is first
SubmitLookup(w) ==
    /\ pc[w] = "rate_lookup"
    /\ LET hits == RatingsOfUserMap(req[w].user, req[w].map)
       IN  IF hits = {}
           THEN req' = [req EXCEPT ![w].existing = NoRow]
           ELSE \E i \in hits :
                    req' = [req EXCEPT ![w].existing = i,
                                       ![w].loaded = RowValue(i)]
    /\ pc' = [pc EXCEPT ![w] = "rate_write"]
    /\ UNCHANGED <<maps, ratings, served, writes, aside>>
    /\ ClientForgets

\* the update branch adding a row instead of changing the one found
UpdateExistingByInsert(tbl, r) ==
    [tbl EXCEPT ![<<r.user, r.map>>] = Append(@, r.value)]

\* lines 90-95: existing_rating.rating = rating_data.rating; db.commit().
\* The flush emits UPDATE ratings SET rating only when the value differs from
\* the one the session loaded.
UpdateExisting(tbl, r) ==
    IF r.value # r.loaded
    THEN [tbl EXCEPT ![<<r.user, r.map>>][r.existing[3]] = r.value]
    ELSE tbl

\* lines 119-128: db.add(Rating(user_id, map_id, rating)); db.commit()
InsertNew(tbl, r) ==
    [tbl EXCEPT ![<<r.user, r.map>>] = Append(@, r.value)]

\* the exception of a failed commit swallowed
AnswerOfCommitSwallowed(committed) == "200"

\* lines 154-158: an exception that is no HTTPException, such as the one a
\* failed db.commit() raises, is answered 500
AnswerOfCommit(committed) == IF committed THEN "200" ELSE "500"

\* committed: whether the db.commit() of the step goes through; storage may
\* fail it, and then nothing of the transaction is written
SubmitWrite(w, committed) ==
    /\ pc[w] = "rate_write"
    /\ ~Gone(w)
    /\ IF committed
       THEN /\ ratings' = IF req[w].existing # NoRow
                          THEN UpdateExisting(ratings, req[w])
                          ELSE InsertNew(ratings, req[w])
            \* db.refresh(rating): the session keeps the row as committed now
            /\ LET r == req[w]
                   own == IF r.existing # NoRow THEN r.existing
                          ELSE <<r.user, r.map,
                                 Len(ratings[<<r.user, r.map>>]) + 1>>
               IN  req' = [req EXCEPT
                              ![w].existing = own,
                              ![w].branch = IF r.existing # NoRow THEN "update"
                                            ELSE "insert",
                              ![w].value = ratings'[<<r.user, r.map>>][own[3]]]
            /\ pc' = [pc EXCEPT ![w] = "stats_load"]
       ELSE /\ ratings' = ratings
            /\ req' = [req EXCEPT ![w] =
                          [IdleReq EXCEPT !.op = AnswerOfCommit(committed)]]
            /\ pc' = [pc EXCEPT ![w] = "idle"]
    /\ UNCHANGED <<maps, served, writes, aside>>
    /\ ClientForgets

\* update_map_rating_stats line 637, map_obj.id: the commit expired map_obj,
\* so the session reloads its row
StatsLoad(w) ==
    /\ pc[w] = "stats_load"
    /\ ~Gone(w)
    /\ req' = [req EXCEPT ![w].loaded = maps[req[w].map]]
    /\ pc' = [pc EXCEPT ![w] = "stats_read"]
    /\ UNCHANGED <<maps, ratings, served, writes, aside>>
    /\ ClientForgets

\* line 637: ratings = db.query(Rating).filter(Rating.map_id == map_obj.id).all()
\* The request's own rating is already in the session (refreshed, not
\* expired) and keeps the value it was refreshed with.
SeenRating(w, i) ==
    IF i = req[w].existing THEN req[w].value ELSE RowValue(i)

RECURSIVE SeenTotal(_, _)
SeenTotal(w, ids) ==
    IF ids = {} THEN 0
    ELSE LET i == CHOOSE x \in ids : TRUE
         IN SeenRating(w, i) + SeenTotal(w, ids \ {i})

StatsRead(w) ==
    /\ pc[w] = "stats_read"
    /\ LET ids == RatingsOfMap(req[w].map)
       IN  req' = [req EXCEPT ![w].count = Cardinality(ids),
                              ![w].total = SeenTotal(w, ids)]
    /\ pc' = [pc EXCEPT ![w] = "stats_write"]
    /\ UNCHANGED <<maps, ratings, served, writes, aside>>
    /\ ClientForgets

\* lines 640-647: the values the aggregator assigns to map_obj
NewRatingCount(count, total) == count

\* the mean cut to 2 decimal places instead of rounded
NewAverageTruncated(count, total) ==
    IF count > 0 THEN (100 * total) \div count ELSE 0

NewAverage(count, total) ==
    IF count > 0 THEN Round2(total, count) ELSE 0

\* the whole row written back as the session loaded it, with the new
\* statistics
FlushStatsWholeRow(row, loaded, count, avg) ==
    [loaded EXCEPT !.rating_count = count, !.average_rating = avg]

\* the count written back and the average not
FlushCountOnly(row, loaded, count, avg) ==
    [row EXCEPT !.rating_count = count]

\* line 650, db.commit(): UPDATE maps SET the columns whose assigned value
\* differs from the loaded one, WHERE id = map_obj.id
FlushStats(row, loaded, count, avg) ==
    [row EXCEPT !.rating_count = IF count # loaded.rating_count THEN count ELSE @,
                !.average_rating = IF avg # loaded.average_rating THEN avg ELSE @]

\* an UPDATE of maps that names no row
UpdatedMapsAll(map_id) == MapIds

\* line 650: the UPDATE of the flush is WHERE maps.id = the primary key of
\* map_obj
UpdatedMaps(map_id) == {map_id}

StatsWrite(w, committed) ==
    /\ pc[w] = "stats_write"
    /\ ~Gone(w)
    /\ LET r == req[w]
       IN  maps' = IF committed
                   THEN [k \in DOMAIN maps |->
                            IF k \in UpdatedMaps(r.map)
                            THEN FlushStats(maps[k], r.loaded,
                                            NewRatingCount(r.count, r.total),
                                            NewAverage(r.count, r.total))
                            ELSE maps[k]]
                   ELSE maps
    /\ pc' = [pc EXCEPT ![w] = "idle"]
    \* lines 100-116, 133-149: the RatingResponse of the branch taken; the
    \* exception of a failed commit leaves update_map_rating_stats, which
    \* catches nothing, and is answered by submit_rating
    /\ req' = [req EXCEPT ![w] =
                  [IdleReq EXCEPT !.op = AnswerOfCommit(committed),
                                  !.branch = IF committed THEN req[w].branch
                                             ELSE "none"]]
    /\ UNCHANGED <<ratings, served, writes, aside>>
    /\ ClientForgets

(***************************************************************************)
(* download_map (routes/maps.py).                                          *)
(***************************************************************************)
\* line 564: map_obj = db.query(Map).filter(Map.id == map_id).first()
DownloadFindMap(w, m) ==
    /\ pc[w] = "idle"
    /\ writes < MaxWrites
    /\ writes' = writes + 1
    /\ IF m \in MapIds \ deleted
       THEN /\ pc' = [pc EXCEPT ![w] = "download_write"]
            /\ req' = [req EXCEPT ![w] = [IdleReq EXCEPT !.op = "download",
                           !.map = m, !.loaded = maps[m]]]
       ELSE /\ pc' = pc
            /\ req' = [req EXCEPT ![w] = [IdleReq EXCEPT !.op = "404",
                                               !.map = m]]
    /\ UNCHANGED <<maps, ratings, served, aside>>
    /\ ClientForgets

\* line 573: map_obj.download_count += 1 is computed in Python from the value
\* the session loaded
IncrementedCount(loaded, current) == loaded + 1

\* lines 573-598: db.commit() emits UPDATE maps SET download_count = <value>;
\* then the file is looked for in the upload directory (line 581) and
\* returned, or 404 is raised when it is not there.  present: whether the
\* file is in the upload directory, which the service does not control.
\* the whole row written back as the session loaded it, with the new count
FlushWholeRow(row, loaded) ==
    [loaded EXCEPT !.download_count = IncrementedCount(loaded.download_count, @)]

\* line 574, db.commit(): download_count is the one attribute the handler
\* assigned, so the UPDATE sets this column and no other
FlushDownload(row, loaded) ==
    [row EXCEPT !.download_count = IncrementedCount(loaded.download_count, @)]

DownloadWrite(w, present) ==
    /\ pc[w] = "download_write"
    /\ ~Gone(w)
    /\ LET m == req[w].map
       IN  /\ maps' = [maps EXCEPT ![m] = FlushDownload(@, req[w].loaded)]
           /\ served' = [served EXCEPT ![m] = IF present THEN @ + 1 ELSE @]
           /\ req' = [req EXCEPT ![w] =
                         IF present THEN [IdleReq EXCEPT !.op = "200"]
                         ELSE [IdleReq EXCEPT !.op = "404", !.map = m]]
    /\ pc' = [pc EXCEPT ![w] = "idle"]
    /\ UNCHANGED <<ratings, writes, aside>>
    /\ ClientForgets

(***************************************************************************)
(* Comments (routes/ratings.py submit_comment, update_comment,             *)
(* delete_comment).  Each handler is one transaction.  A row's written_by  *)
(* is no column of the table: it records the user whose request wrote the  *)
(* row's content last.                                                      *)
(***************************************************************************)
\* schemas.CommentBase: content has min_length=1 (and max_length=5000);
\* FastAPI answers 422 before the handler runs
ValidContent(c) == Len(c) >= 1

\* lines 398-401, 490-493: db.query(Comment).filter(Comment.id == comment_id,
\* Comment.map_id == map_id).first() yields a row
CommentFound(k, m) ==
    /\ k \in DOMAIN comments
    /\ comments[k].present
    /\ comments[k].map_id = m

\* every user taken for the author
IsAuthorAlways(comment, u) == TRUE

\* lines 412, 504: comment.user_id != current_user.id raises 403
IsAuthor(comment, u) == comment.user_id = u

Answer(op, status, u, m, k) ==
    [status |-> status, op |-> op, user |-> u, map_id |-> m, comment_id |-> k]

submit_comment(u, m, c) ==
    /\ Len(comments) < MaxComments
    /\ IF ~ValidContent(c)
       THEN /\ comments' = comments
            /\ resp' = Answer("submit_comment", 422, u, m, None)
       ELSE IF ~MapFound(m)
       THEN /\ comments' = comments
            /\ resp' = Answer("submit_comment", 404, u, m, None)
       ELSE /\ comments' = Append(comments,
                               [user_id |-> u, map_id |-> m, content |-> c,
                                written_by |-> u, present |-> TRUE])
            /\ resp' = Answer("submit_comment", 201, u, m, Len(comments) + 1)
    /\ walk' = NoWalk
    /\ UNCHANGED <<maps, ratings, pc, req, served, writes, deleted, exchange>>

update_comment(u, m, k, c) ==
    /\ IF ~ValidContent(c)
       THEN /\ comments' = comments
            /\ resp' = Answer("update_comment", 422, u, m, k)
       ELSE IF ~CommentFound(k, m)
       THEN /\ comments' = comments
            /\ resp' = Answer("update_comment", 404, u, m, k)
       ELSE IF ~IsAuthor(comments[k], u)
       THEN /\ comments' = comments
            /\ resp' = Answer("update_comment", 403, u, m, k)
       ELSE /\ comments' = [comments EXCEPT ![k].content = c,
                                            ![k].written_by = u]
            /\ resp' = Answer("update_comment", 200, u, m, k)
    /\ walk' = NoWalk
    /\ UNCHANGED <<maps, ratings, pc, req, served, writes, deleted, exchange>>

delete_comment(u, m, k) ==
    /\ IF ~CommentFound(k, m)
       THEN /\ comments' = comments
            /\ resp' = Answer("delete_comment", 404, u, m, k)
       ELSE IF ~IsAuthor(comments[k], u)
       THEN /\ comments' = comments
            /\ resp' = Answer("delete_comment", 403, u, m, k)
       ELSE /\ comments' = [comments EXCEPT ![k].present = FALSE]
            /\ resp' = Answer("delete_comment", 204, u, m, k)
    /\ walk' = NoWalk
    /\ UNCHANGED <<maps, ratings, pc, req, served, writes, deleted, exchange>>

(***************************************************************************)
(* A map deleted while a request for it is under way.  The service has no  *)
(* operation that deletes a map; a map goes with its ratings and comments  *)
(* when its owner is deleted.                                               *)
(***************************************************************************)
delete_map(m) ==
    /\ m \in MapIds \ deleted
    /\ deleted' = deleted \cup {m}
    /\ ratings' = [q \in DOMAIN ratings |->
                      IF q[2] = m THEN <<>> ELSE ratings[q]]
    /\ comments' = [k \in DOMAIN comments |->
                       IF comments[k].map_id = m
                       THEN [comments[k] EXCEPT !.present = FALSE]
                       ELSE comments[k]]
    /\ UNCHANGED <<maps, pc, req, served, writes, exchange>>
    /\ ClientForgets

\* The session meets the missing row: the reload of the expired map_obj
\* (update_map_rating_stats line 637, map_obj.id) raises ObjectDeletedError,
\* the INSERT of a rating violates the foreign key, an UPDATE of the row
\* matches no row.  None is an HTTPException: the handler answers 500
\* (ratings.py 154-158, maps.py 602-606) and the transaction is rolled back.
RowGone(w) ==
    /\ pc[w] \in {"rate_write", "stats_load", "stats_write", "download_write"}
    /\ Gone(w)
    /\ pc' = [pc EXCEPT ![w] = "idle"]
    /\ req' = [req EXCEPT ![w] = [IdleReq EXCEPT !.op = "500"]]
    /\ UNCHANGED <<maps, ratings, served, writes, aside>>
    /\ ClientForgets

(***************************************************************************)
(* list_maps (routes/maps.py): filters, sort, count, page.                 *)
(***************************************************************************)
\* lower() of a character code (ASCII)
Lower(c) == IF c \in 65..90 THEN c + 32 ELSE c

RECURSIVE Like(_, _)
\* text ILIKE pattern: % matches any run of characters, _ any one character,
\* every other character itself, letters without regard to case
Like(pattern, text) ==
    IF pattern = <<>> THEN text = <<>>
    ELSE IF Head(pattern) = 37
         THEN Like(Tail(pattern), text)
              \/ (text # <<>> /\ Like(pattern, Tail(text)))
         ELSE /\ text # <<>>
              /\ (Head(pattern) = 95 \/ Lower(Head(pattern)) = Lower(Head(text)))
              /\ Like(Tail(pattern), Tail(text))

\* column.ilike(f"%{s}%"); NULL ILIKE anything is not true
ILikeContains(text, s) ==
    text # NoText /\ Like(<<37>> \o s \o <<37>>, text)

\* lines 304-326: the filters a request applies; "if x:" skips None, "" and 0,
\* "if x is not None:" skips None only
Matches(row, a) ==
    /\ (a.terrain_type \notin {NoneStr, ""}) => row.terrain_type = a.terrain_type
    /\ (a.size \notin {None, 0}) => row.size = a.size
    /\ (a.player_count \notin {None, 0}) => row.player_count = a.player_count
    /\ (a.min_rating # None) => row.average_rating >= a.min_rating
    /\ (a.author \notin {NoText, <<>>}) => ILikeContains(row.author, a.author)
    /\ (a.creator_id # None) => row.creator_id = a.creator_id
    /\ (a.search \notin {NoText, <<>>}) =>
           (ILikeContains(row.name, a.search)
            \/ ILikeContains(row.description, a.search))

Filtered(a) == {m \in MapIds \ deleted : Matches(maps[m], a)}

\* lines 329-334
valid_sort_fields == {"created_at", "rating", "downloads", "name"}

RECURSIVE LexLeq(_, _)
\* s <= t for text, character by character
LexLeq(s, t) ==
    IF s = <<>> THEN TRUE
    ELSE IF t = <<>> THEN FALSE
    ELSE IF Head(s) # Head(t) THEN Head(s) < Head(t)
    ELSE LexLeq(Tail(s), Tail(t))

\* row x may come before row y under ORDER BY sort_field ASC
KeyLeq(sort_by, x, y) ==
    CASE sort_by = "created_at" -> maps[x].created_at <= maps[y].created_at
      [] sort_by = "rating"     -> maps[x].average_rating <= maps[y].average_rating
      [] sort_by = "downloads"  -> maps[x].download_count <= maps[y].download_count
      [] sort_by = "name"       -> LexLeq(maps[x].name, maps[y].name)

RECURSIVE Orderings(_, _, _)
\* lines 349-353: ORDER BY sort_field ASC|DESC and nothing else.  The
\* database may return rows with equal sort_field in any order, and in a
\* different order for each statement: the first row is any row that may come
\* before all others, and so on for the rows that remain.
Orderings(S, sort_by, sort_order) ==
    IF S = {} THEN {<<>>}
    ELSE LET first == {x \in S : \A y \in S :
                          IF sort_order = "asc" THEN KeyLeq(sort_by, x, y)
                          ELSE KeyLeq(sort_by, y, x)}
         IN  UNION {{<<x>> \o o : o \in Orderings(S \ {x}, sort_by, sort_order)} :
                       x \in first}

\* the rows of the page counted instead of the rows of the query
CountOfPage(S, items) == Len(items)

\* line 356: total = query.count(), taken before offset and limit are applied
CountOf(S, items) == Cardinality(S)

\* the offset taken as page * limit
PageOfFromPage(o, page, limit) ==
    LET offset == page * limit
        last == IF offset + limit < Len(o) THEN offset + limit ELSE Len(o)
    IN  SubSeq(o, offset + 1, last)

\* lines 359-362: query.offset((page - 1) * limit).limit(limit).all()
PageOf(o, page, limit) ==
    LET offset == (page - 1) * limit
        last == IF offset + limit < Len(o) THEN offset + limit ELSE Len(o)
    IN  SubSeq(o, offset + 1, last)

\* the division rounded down instead of up
TotalPagesFloor(total, limit) ==
    IF total > 0 THEN total \div limit ELSE 0

\* line 393
TotalPages(total, limit) ==
    IF total > 0 THEN (total + limit - 1) \div limit ELSE 0

\* what of a request identifies the query, apart from the page asked for
QueryOf(a) == [a EXCEPT !.page = 1]

\* the client side: a walk starts with each answer to a request for page 1
\* and goes on while the next request asks the same query for the next page
WalkAfter(a, items) ==
    IF a.page = 1
    THEN [page |-> 1, query |-> QueryOf(a), items |-> items]
    ELSE IF walk # NoWalk /\ walk.query = QueryOf(a) /\ a.page = walk.page + 1
    THEN [walk EXCEPT !.page = a.page, !.items = @ \o items]
    ELSE NoWalk

\* line 257: limit: int = Query(10, ge=1, le=100)
MaxPageSize == 100

\* a page size of any magnitude let through
ValidPagingNoMax(a) == a.page >= 1 /\ a.limit >= 1

\* lines 256-257: page ge=1; limit ge=1, le=100.  FastAPI checks the Query
\* constraints before it calls the handler and answers 422 when one fails.
ValidPaging(a) == a.page >= 1 /\ a.limit >= 1 /\ a.limit <= MaxPageSize

\* lines 259-264: the constraints on the optional filters, when given
ValidFilters(a) ==
    /\ a.size = None \/ a.size \in 512..4096
    /\ a.player_count = None \/ a.player_count \in 1..32
    /\ a.min_rating = None \/ a.min_rating \in 0..500
    /\ a.search = NoText \/ Len(a.search) \in 1..100

\* the sort field checked and the sort direction not
SortErrorOfFieldOnly(a) == a.sort_by \notin valid_sort_fields

\* lines 336-346: the two checks that raise HTTPException 400
SortError(a) ==
    a.sort_by \notin valid_sort_fields \/ a.sort_order \notin {"asc", "desc"}

list_maps(a) ==
    /\ IF ~(ValidPaging(a) /\ ValidFilters(a))
       THEN \* rejected before the handler runs
            /\ resp' = [status |-> 422, args |-> a]
            /\ walk' = NoWalk
       ELSE IF SortError(a)
       THEN \* lines 336-346: HTTPException 400
            /\ resp' = [status |-> 400, args |-> a]
            /\ walk' = NoWalk
       ELSE \E items \in {PageOf(o, a.page, a.limit) :
                           o \in Orderings(Filtered(a), a.sort_by, a.sort_order)} :
              LET total == CountOf(Filtered(a), items)
              IN  /\ resp' = [status |-> 200, args |-> a,
                              items |-> items, total |-> total,
                              page |-> a.page, page_size |-> a.limit,
                              total_pages |-> TotalPages(total, a.limit)]
                  /\ walk' = WalkAfter(a, items)
    /\ UNCHANGED <<maps, ratings, pc, req, served, writes, aside>>

\* The users table (models.User): id and username, and the email and
\* hashed_password no response may show.  No operation of the model writes
\* it; Accounts are the tables that differ only in these two columns.
Secrets ==
    {[email |-> "a@x", hashed_password |-> "$2b$a"],
     [email |-> "b@y", hashed_password |-> "$2b$b"]}

UserRow(u, secret) ==
    [id |-> u, username |-> IF u = 1 THEN "u1" ELSE IF u = 2 THEN "u2" ELSE "u3",
     email |-> secret.email, hashed_password |-> secret.hashed_password]

Accounts ==
    {[u \in Users |-> UserRow(u, sec[u])] : sec \in [Users -> Secrets]}

\* the whole users row taken for the profile
creator_profile_of_row(creator) == creator

\* lines 368-371: UserProfile(id=map_obj.creator.id,
\*                            username=map_obj.creator.username)
creator_profile(creator) ==
    [id |-> creator.id, username |-> creator.username]

\* lines 374-389: MapListItem(...) of the map with id m
MapListItemOf(m, users) ==
    [id             |-> m,
     name           |-> maps[m].name,
     author         |-> maps[m].author,
     terrain_type   |-> maps[m].terrain_type,
     size           |-> maps[m].size,
     player_count   |-> maps[m].player_count,
     average_rating |-> maps[m].average_rating,
     rating_count   |-> maps[m].rating_count,
     download_count |-> maps[m].download_count,
     created_at     |-> maps[m].created_at,
     creator        |-> creator_profile(users[maps[m].creator_id])]

\* lines 396-402: the MapListResponse sent for the answer r, the users table
\* being users
MapListResponseOf(r, users) ==
    [items       |-> [k \in DOMAIN r.items |-> MapListItemOf(r.items[k], users)],
     total       |-> r.total,
     page        |-> r.page,
     page_size   |-> r.page_size,
     total_pages |-> r.total_pages]

(***************************************************************************)
(* get_map_detail (routes/maps.py).                                        *)
(***************************************************************************)
\* lines 461-467: the map is looked up, 404 when there is no such map; lines
\* 477-511: the MapResponse, of which the cached statistics are kept here.
\* The handler writes nothing.
get_map_detail(m) ==
    /\ resp' = IF m \in MapIds \ deleted
               THEN [status |-> 200, map_id |-> m, stats |->
                        [download_count |-> maps[m].download_count,
                         average_rating |-> maps[m].average_rating,
                         rating_count   |-> maps[m].rating_count]]
               ELSE [status |-> 404, map_id |-> m]
    /\ walk' = NoWalk
    /\ UNCHANGED <<maps, ratings, pc, req, served, writes, aside>>

(***************************************************************************)
(* Export and import of a generator configuration (verify_roundtrip.py).   *)
(* Text is a sequence of character codes (ASCII, which utf-8 encodes and   *)
(* decodes byte for byte).  A JSON value is <<"s", text>>, <<"n", natural>>,*)
(* <<"f", tenths>> (a float with one decimal), <<"l">> (the empty list) or  *)
(* <<"o", members>>, members being a sequence of <<key, value>> in the      *)
(* order of the dict.                                                       *)
(***************************************************************************)
JStr(t) == <<"s", t>>
JNat(n) == <<"n", n>>
JFloat(tenths) == <<"f", tenths>>
JList == <<"l">>
JObj(members) == <<"o", members>>

\* dict.get(key): the value of the member named key, None when there is none
RECURSIVE Member(_, _)
Member(members, key) ==
    IF members = <<>> THEN <<"none">>
    ELSE IF Head(members)[1] = key /\ Member(Tail(members), key) = <<"none">>
         THEN Head(members)[2]
         ELSE Member(Tail(members), key)

\* Python's truth value of a JSON value: '', 0, [], {} and None are false
Truthy(v) ==
    CASE v[1] = "s" -> v[2] # <<>>
      [] v[1] = "n" -> v[2] # 0
      [] v[1] = "f" -> v[2] # 0
      [] v[1] = "l" -> FALSE
      [] v[1] = "o" -> v[2] # <<>>
      [] OTHER -> FALSE

\* json.dumps -----------------------------------------------------------
RECURSIVE Escaped(_)
\* a string's characters with " and \ escaped by \
Escaped(t) ==
    IF t = <<>> THEN <<>>
    ELSE (IF Head(t) \in {34, 92} THEN <<92, Head(t)>> ELSE <<Head(t)>>)
         \o Escaped(Tail(t))

RECURSIVE Digits(_)
Digits(n) == IF n < 10 THEN <<48 + n>> ELSE Digits(n \div 10) \o <<48 + (n % 10)>>

RECURSIVE Spaces(_)
Spaces(n) == IF n = 0 THEN <<>> ELSE <<32>> \o Spaces(n - 1)

\* the separator before a member: indent None gives ", " between members and
\* nothing before the first; indent k gives a newline and k * level spaces,
\* with "," before it between members
Lead(indent, level, first) ==
    IF indent = 0 THEN (IF first THEN <<>> ELSE <<44, 32>>)
    ELSE (IF first THEN <<>> ELSE <<44>>) \o <<10>> \o Spaces(indent * level)

RECURSIVE Dumps(_, _, _)
RECURSIVE DumpsMembers(_, _, _, _)
DumpsMembers(members, indent, level, first) ==
    IF members = <<>> THEN <<>>
    ELSE Lead(indent, level, first)
         \o <<34>> \o Escaped(Head(members)[1]) \o <<34, 58, 32>>
         \o Dumps(Head(members)[2], indent, level)
         \o DumpsMembers(Tail(members), indent, level, FALSE)

\* json.dumps(v) when indent = 0, json.dumps(v, indent=indent) else
Dumps(v, indent, level) ==
    CASE v[1] = "s" -> <<34>> \o Escaped(v[2]) \o <<34>>
      [] v[1] = "n" -> Digits(v[2])
      [] v[1] = "f" -> Digits(v[2] \div 10) \o <<46>> \o Digits(v[2] % 10)
      [] v[1] = "l" -> <<91, 93>>
      [] v[1] = "o" ->
            IF v[2] = <<>> THEN <<123, 125>>
            ELSE <<123>> \o DumpsMembers(v[2], indent, level + 1, TRUE)
                 \o (IF indent = 0 THEN <<>>
                     ELSE <<10>> \o Spaces(indent * level))
                 \o <<125>>

\* json.loads ------------------------------------------------------------
\* a parse yields [ok, val, at]: the value read and the position after it
Bad == [ok |-> FALSE, val |-> <<"none">>, at |-> 0]

RECURSIVE SkipWs(_, _)
SkipWs(s, i) ==
    IF i <= Len(s) /\ s[i] \in {32, 10, 13, 9} THEN SkipWs(s, i + 1) ELSE i

RECURSIVE LoadsChars(_, _, _)
\* the characters of a string up to its closing quote
LoadsChars(s, i, acc) ==
    IF i > Len(s) THEN Bad
    ELSE IF s[i] = 34 THEN [ok |-> TRUE, val |-> JStr(acc), at |-> i + 1]
    ELSE IF s[i] = 92
         THEN IF i + 1 <= Len(s) /\ s[i + 1] \in {34, 92}
              THEN LoadsChars(s, i + 2, Append(acc, s[i + 1]))
              ELSE Bad
    ELSE LoadsChars(s, i + 1, Append(acc, s[i]))

RECURSIVE LoadsDigits(_, _, _)
LoadsDigits(s, i, acc) ==
    IF i <= Len(s) /\ s[i] \in 48..57
    THEN LoadsDigits(s, i + 1, (10 * acc) + (s[i] - 48))
    ELSE IF i + 1 <= Len(s) /\ s[i] = 46 /\ s[i + 1] \in 48..57
              /\ ~(i + 2 <= Len(s) /\ s[i + 2] \in 48..57)
         THEN [ok |-> TRUE, val |-> JFloat((10 * acc) + (s[i + 1] - 48)),
               at |-> i + 2]
    ELSE IF i <= Len(s) /\ s[i] = 46 THEN Bad
    ELSE [ok |-> TRUE, val |-> JNat(acc), at |-> i]

RECURSIVE LoadsValue(_, _)
RECURSIVE LoadsMembers(_, _, _)
\* the members of an object from the first key on
LoadsMembers(s, i, acc) ==
    LET k == SkipWs(s, i)
    IN  IF k > Len(s) \/ s[k] # 34 THEN Bad
        ELSE LET key == LoadsChars(s, k + 1, <<>>)
                 c == SkipWs(s, key.at)
             IN  IF ~key.ok \/ c > Len(s) \/ s[c] # 58 THEN Bad
                 ELSE LET v == LoadsValue(s, c + 1)
                          e == SkipWs(s, v.at)
                          all == Append(acc, <<key.val[2], v.val>>)
                      IN  IF ~v.ok \/ e > Len(s) THEN Bad
                          ELSE IF s[e] = 44 THEN LoadsMembers(s, e + 1, all)
                          ELSE IF s[e] = 125
                               THEN [ok |-> TRUE, val |-> JObj(all), at |-> e + 1]
                          ELSE Bad

LoadsValue(s, i) ==
    LET k == SkipWs(s, i)
    IN  IF k > Len(s) THEN Bad
        ELSE IF s[k] = 34 THEN LoadsChars(s, k + 1, <<>>)
        ELSE IF s[k] \in 48..57 THEN LoadsDigits(s, k, 0)
        ELSE IF s[k] = 91
             THEN LET e == SkipWs(s, k + 1)
                  IN  IF e <= Len(s) /\ s[e] = 93
                      THEN [ok |-> TRUE, val |-> JList, at |-> e + 1]
                      ELSE Bad
        ELSE IF s[k] = 123
             THEN LET e == SkipWs(s, k + 1)
                  IN  IF e <= Len(s) /\ s[e] = 125
                      THEN [ok |-> TRUE, val |-> JObj(<<>>), at |-> e + 1]
                      ELSE LoadsMembers(s, k + 1, <<>>)
        ELSE Bad

\* json.loads(s): the value, or Bad when s is no JSON document
Loads(s) ==
    LET v == LoadsValue(s, 1)
    IN  IF v.ok /\ SkipWs(s, v.at) = Len(s) + 1 THEN v ELSE Bad

\* base64 -----------------------------------------------------------------
\* the character of a 6-bit value in the base64 alphabet
B64Char(n) ==
    IF n < 26 THEN 65 + n
    ELSE IF n < 52 THEN 97 + (n - 26)
    ELSE IF n < 62 THEN 48 + (n - 52)
    ELSE IF n = 62 THEN 43 ELSE 47

B64Value(c) ==
    IF c \in 65..90 THEN c - 65
    ELSE IF c \in 97..122 THEN (c - 97) + 26
    ELSE IF c \in 48..57 THEN (c - 48) + 52
    ELSE IF c = 43 THEN 62 ELSE 63

\* base64.b64encode: 3 bytes to 4 characters, the last group padded with =
b64encode(b) ==
    LET n == Len(b)
        Byte(i) == IF i <= n THEN b[i] ELSE 0
        Char(k) ==
            LET g == 3 * ((k - 1) \div 4)
                j == (k - 1) % 4
            IN  IF j = 0 THEN B64Char(Byte(g + 1) \div 4)
                ELSE IF j = 1
                     THEN B64Char(((Byte(g + 1) % 4) * 16)
                                  + (Byte(g + 2) \div 16))
                ELSE IF j = 2
                     THEN IF g + 2 > n THEN 61
                          ELSE B64Char(((Byte(g + 2) % 16) * 4)
                                       + (Byte(g + 3) \div 64))
                ELSE IF g + 3 > n THEN 61 ELSE B64Char(Byte(g + 3) % 64)
    IN  [k \in 1..(4 * ((n + 2) \div 3)) |-> Char(k)]

\* base64.b64decode: 4 characters to 3 bytes, fewer where = pads
b64decode(t) ==
    LET n == Len(t) - (Len(t) % 4)
        pad == IF n = 0 THEN 0
               ELSE IF t[n - 1] = 61 THEN 2
               ELSE IF t[n] = 61 THEN 1 ELSE 0
        Byte(i) ==
            LET g == 4 * ((i - 1) \div 3)
                j == (i - 1) % 3
                a == B64Value(t[g + 1])
                b == B64Value(t[g + 2])
                c == B64Value(t[g + 3])
                d == B64Value(t[g + 4])
            IN  IF j = 0 THEN (a * 4) + (b \div 16)
                ELSE IF j = 1 THEN ((b % 16) * 16) + (c \div 4)
                ELSE ((c % 4) * 64) + d
    IN  [i \in 1..((3 * (n \div 4)) - pad) |-> Byte(i)]

\* the export and import functions ----------------------------------------
\* x or default
Or(x, default) == IF x # <<>> THEN x ELSE default

Anonymous == <<65, 110, 111, 110, 121, 109, 111, 117, 115>>
NoDescription == <<78, 111, 32, 100, 101, 115, 99, 114, 105, 112, 116, 105, 111, 110>>
KeyVersion == <<118, 101, 114, 115, 105, 111, 110>>
KeyTimestamp == <<116, 105, 109, 101, 115, 116, 97, 109, 112>>
KeyMetadata == <<109, 101, 116, 97, 100, 97, 116, 97>>
KeyCreator == <<99, 114, 101, 97, 116, 111, 114>>
KeyDescription == <<100, 101, 115, 99, 114, 105, 112, 116, 105, 111, 110>>
KeyConfig == <<99, 111, 110, 102, 105, 103>>

\* lines 46-54, 69-77: export_data; the timestamp is the text of a time
export_data(map_config, creator_name, map_description) ==
    JObj(<< <<KeyVersion, JStr(<<49, 46, 48>>)>>,
            <<KeyTimestamp, JStr(<<50, 48, 50, 54, 45, 48, 49>>)>>,
            <<KeyMetadata,
              JObj(<< <<KeyCreator, JStr(Or(creator_name, Anonymous))>>,
                      <<KeyDescription,
                        JStr(Or(map_description, NoDescription))>> >>)>>,
            <<KeyConfig, JObj(map_config)>> >>)

\* line 55: json.dumps(export_data, indent=2)
simulate_export_config_json(map_config, creator_name, map_description) ==
    Dumps(export_data(map_config, creator_name, map_description), 2, 0)

\* lines 78-79: base64 of json.dumps(export_data)
simulate_export_config_text(map_config, creator_name, map_description) ==
    b64encode(Dumps(export_data(map_config, creator_name, map_description),
                    0, 0))

\* lines 62-64, 86-87: the document is refused when version or config is
\* missing or false
Refused(import_data) ==
    \/ ~import_data.ok
    \/ import_data.val[1] # "o"
    \/ ~Truthy(Member(import_data.val[2], KeyVersion))
    \/ ~Truthy(Member(import_data.val[2], KeyConfig))

\* lines 57-65
simulate_import_config_json(json_string) == Loads(json_string)

\* lines 81-89
simulate_import_config_text(base64_string) == Loads(b64decode(base64_string))

\* lines 91-103: the fields of original that imported does not hold equal
compare_configs(original, imported) ==
    {k \in 1..Len(original) :
        original[k][2] # Member(imported, original[k][1])}

\* what the exchange holds once a document was written
Exported(format, text, map_config, creator_name, map_description) ==
    [stage |-> "exported", format |-> format, text |-> text,
     config |-> map_config, creator |-> creator_name,
     description |-> map_description, imported |-> <<"none">>]

\* the user exports a configuration as a JSON file
ExportJSON(map_config, creator_name, map_description) ==
    /\ exchange.stage # "exported"
    /\ exchange' = Exported("json",
                            simulate_export_config_json(map_config,
                                creator_name, map_description),
                            map_config, creator_name, map_description)
    /\ UNCHANGED <<maps, ratings, pc, req, served, writes, resp, walk,
                   deleted, comments>>

\* the user exports a configuration as base64 text
ExportText(map_config, creator_name, map_description) ==
    /\ exchange.stage # "exported"
    /\ exchange' = Exported("text",
                            simulate_export_config_text(map_config,
                                creator_name, map_description),
                            map_config, creator_name, map_description)
    /\ UNCHANGED <<maps, ratings, pc, req, served, writes, resp, walk,
                   deleted, comments>>

\* line 428: a JSON export is encoded as base64 text
ReencodeAsText ==
    /\ exchange.stage = "exported"
    /\ exchange.format = "json"
    /\ exchange' = [exchange EXCEPT !.format = "text",
                                     !.text = b64encode(@)]
    /\ UNCHANGED <<maps, ratings, pc, req, served, writes, resp, walk,
                   deleted, comments>>

\* the document is read back: refused with ValueError, or its data returned
Import ==
    /\ exchange.stage = "exported"
    /\ LET import_data ==
               IF exchange.format = "json"
               THEN simulate_import_config_json(exchange.text)
               ELSE simulate_import_config_text(exchange.text)
       IN  exchange' =
               IF Refused(import_data)
               THEN [exchange EXCEPT !.stage = "refused"]
               ELSE [exchange EXCEPT !.stage = "imported",
                                     !.imported = import_data.val[2]]
    /\ UNCHANGED <<maps, ratings, pc, req, served, writes, resp, walk,
                   deleted, comments>>

KeySize == <<115, 105, 122, 101>>
KeyTerrainType == <<116, 101, 114, 114, 97, 105, 110, 84, 121, 112, 101>>
KeyWaterLevel == <<119, 97, 116, 101, 114, 76, 101, 118, 101, 108>>
KeyStartPositions == <<115, 116, 97, 114, 116, 80, 111, 115, 105, 116, 105, 111, 110, 115>>

\* configurations of the generator: none of its fields, some, and the
\* fields of the test cases with a size, a terrain type, a level and the
\* list of start positions
Configs ==
    { <<>>,
      << <<KeySize, JNat(512)>> >>,
      << <<KeySize, JNat(1024)>>,
         <<KeyTerrainType, JStr(<<102, 108, 97, 116>>)>>,
         <<KeyWaterLevel, JFloat(3)>>,
         <<KeyStartPositions, JList>> >>,
      << <<KeySize, JNat(2048)>>,
         <<KeyTerrainType, JStr(<<104, 105, 108, 108, 115>>)>>,
         <<KeyWaterLevel, JFloat(10)>> >> }

\* creator names: empty, a name, a name with quotes and a backslash, and the
\* name the export puts for an empty one
Creators == {<<>>, <<84, 101, 115, 116>>, <<34, 81, 34, 32, 38, 92>>, Anonymous}

Descriptions == {<<>>, <<84, 101, 115, 116, 32, 99, 111, 110, 102, 105, 103>>}

(***************************************************************************)
(* Inputs.                                                                 *)
(***************************************************************************)
\* two upload forms: one that states its generation parameters, one that
\* leaves them to the handler's defaults
Forms ==
    {[name |-> <<73, 115>>, description |-> <<105, 115, 108, 101>>,
      author |-> <<65, 110>>, uploader |-> 1,
      generation_data |-> [size |-> 2048, terrain_type |-> "islands",
                           player_count |-> 2]],
     [name |-> <<97>>, description |-> NoText, author |-> <<98>>,
      uploader |-> 2,
      generation_data |-> <<>>]}

PlainForm == CHOOSE f \in Forms : f.generation_data = <<>>

\* largest page size a listing asks for; the pages asked for are those there
\* can be, and one beyond
MaxLimit == 2
AskedPages == 1..(MaxMaps + 1)

NoFilters ==
    [page |-> 1, limit |-> 1, terrain_type |-> NoneStr, size |-> None,
     player_count |-> None, min_rating |-> None, author |-> NoText,
     creator_id |-> None, search |-> NoText,
     sort_by |-> "created_at", sort_order |-> "desc"]

ListInputs ==
    {[NoFilters EXCEPT !.page = p, !.limit = l, !.sort_by = s,
                       !.sort_order = d, !.terrain_type = t] :
        p \in AskedPages, l \in 1..MaxLimit,
        s \in valid_sort_fields \cup {"size"}, d \in {"asc", "desc"},
        t \in {NoneStr, "islands"}}

\* requests that filter and search: one page that holds the whole catalog,
\* in the order of upload
AllOnOnePage == [NoFilters EXCEPT !.limit = MaxPageSize, !.sort_order = "asc"]

\* texts asked for: "is", "S", "A", "an", "_", "%", "x", ""
AskedTexts ==
    {<<105, 115>>, <<83>>, <<65>>, <<97, 110>>, <<95>>, <<37>>, <<120>>, <<>>}

FilterInputs ==
    {[AllOnOnePage EXCEPT !.terrain_type = t] : t \in {"continental", ""}}
    \cup {[AllOnOnePage EXCEPT !.size = z] : z \in {0, 1024, 2048, 4097}}
    \cup {[AllOnOnePage EXCEPT !.player_count = n] : n \in {0, 2, 4, 33}}
    \cup {[AllOnOnePage EXCEPT !.min_rating = r] : r \in {0, 1, 500, 501}}
    \cup {[AllOnOnePage EXCEPT !.creator_id = c] : c \in {0, 1, 2}}
    \cup {[AllOnOnePage EXCEPT !.author = t] : t \in AskedTexts}
    \cup {[AllOnOnePage EXCEPT !.search = t] : t \in AskedTexts}
    \cup {[AllOnOnePage EXCEPT !.search = t, !.terrain_type = "islands",
                                !.size = 2048, !.creator_id = c] :
              t \in AskedTexts, c \in {1, 2}}

\* requests at and beyond the limits of page, limit and the sort parameters
EdgeInputs ==
    {[NoFilters EXCEPT !.page = p, !.limit = l] :
        p \in {0, 1}, l \in {0, 1, MaxPageSize, MaxPageSize + 1}}
    \cup {[NoFilters EXCEPT !.sort_by = f, !.sort_order = d] :
              f \in {"name", "size", ""}, d \in {"asc", "up", ""}}
    \cup {[NoFilters EXCEPT !.page = 0, !.sort_by = "size"]}

\* The client asks anything first; then it asks the same again, or the next
\* page of the same query, or it leaves.  list_maps keeps nothing between
\* requests, so this orders the requests without changing any answer.
ClientStarts ==
    /\ resp = NoResp
    /\ \E a \in ListInputs \cup FilterInputs \cup EdgeInputs : list_maps(a)

ClientRepeats ==
    /\ resp # NoResp
    /\ list_maps(resp.args)

ClientTurnsPage ==
    /\ resp # NoResp
    /\ resp.args.page + 1 \in AskedPages
    /\ list_maps([resp.args EXCEPT !.page = @ + 1])

ClientLeaves ==
    /\ resp # NoResp
    /\ ClientForgets
    /\ UNCHANGED <<maps, ratings, pc, req, served, writes, aside>>

(***************************************************************************)
(* Specifications.                                                         *)
(***************************************************************************)
Init ==
    /\ maps = <<>>
    /\ ratings = [p \in Users \X AskedMapIds |-> <<>>]
    /\ pc = [w \in Workers |-> "idle"]
    /\ req = [w \in Workers |-> IdleReq]
    /\ served = <<>>
    /\ writes = 0
    /\ resp = NoResp
    /\ walk = NoWalk
    /\ deleted = {}
    /\ comments = <<>>
    /\ exchange = NoExchange

\* the steps of worker w's request; in: the users, map ids and rating values
\* its inputs are drawn from, whether the file of a download is there, the
\* number of requests served in all, and whether its commits go through
Step(w, in) ==
    \/ \E u \in in.users, m \in in.maps, v \in in.values :
           writes < in.requests /\ SubmitFindMap(w, u, m, v)
    \/ SubmitLookup(w)
    \/ \E committed \in in.commits : SubmitWrite(w, committed)
    \/ StatsLoad(w)
    \/ StatsRead(w)
    \/ \E committed \in in.commits : StatsWrite(w, committed)
    \/ \E m \in in.maps : writes < in.requests /\ DownloadFindMap(w, m)
    \/ \E present \in in.files : DownloadWrite(w, present)

\* map ids the rating and download requests name: the first two maps, and
\* one that is never there
NamedMapIds == {1, 2, MaxMaps + 1}

\* requests served by several workers at once
ConcurrentInputs ==
    [users |-> {1, 2}, maps |-> NamedMapIds, values |-> {2, 5},
     files |-> {TRUE}, requests |-> MaxWrites - 1,
     commits |-> {TRUE}]

Next ==
    \/ upload_map(1, PlainForm)
    \/ \E w \in Workers : Step(w, ConcurrentInputs)

Spec == Init /\ [][Next]_vars

\* no request is under way
Quiet == \A w \in Workers : pc[w] = "idle"

\* requests served one after the other; the values are the least, the
\* greatest and one between, and the two next to the range; the file of a
\* download may be missing
SeqInputs ==
    [users |-> Users, maps |-> NamedMapIds,
     values |-> {v \in RatingValues : v <= MinRating + 1 \/ v = MaxRating}
                \cup {MinRating - 1, MaxRating + 1},
     files |-> BOOLEAN, requests |-> MaxWrites, commits |-> {TRUE}]

NextSeq ==
    \/ upload_map(1, PlainForm)
    \/ Step(1, SeqInputs)

SpecSeq == Init /\ [][NextSeq]_vars

\* a client that reads the catalog, whole or one map of it, while the
\* workers serve ratings and downloads
ClientLists ==
    /\ resp = NoResp
    /\ list_maps(AllOnOnePage)

ClientGets ==
    /\ resp = NoResp
    /\ \E m \in NamedMapIds : get_map_detail(m)

\* the requests of the workers name the first map or one that is not there
ReadInputs == [ConcurrentInputs EXCEPT !.maps = {1, MaxMaps + 1}]

NextRead ==
    \/ upload_map(1, PlainForm)
    \/ \E w \in Workers : Step(w, ReadInputs)
    \/ ClientLists
    \/ ClientGets
    \/ ClientLeaves

SpecRead == Init /\ [][NextRead]_vars

\* requests served one after the other on a storage that may fail any
\* commit of a rating submission
FailInputs ==
    [users |-> {1, 2}, maps |-> NamedMapIds, values |-> {2, 5},
     files |-> {TRUE}, requests |-> MaxWrites, commits |-> BOOLEAN]

NextFail ==
    \/ upload_map(1, PlainForm)
    \/ Step(1, FailInputs)

SpecFail == Init /\ [][NextFail]_vars

\* requests served one after the other while maps are deleted
DeleteInputs ==
    [users |-> {1, 2}, maps |-> NamedMapIds, values |-> {2, 5},
     files |-> {TRUE}, requests |-> MaxWrites, commits |-> {TRUE}]

NextDelete ==
    \/ upload_map(1, PlainForm)
    \/ Step(1, DeleteInputs)
    \/ \E m \in MapIds : delete_map(m)
    \/ RowGone(1)

SpecDelete == Init /\ [][NextDelete]_vars

\* comments written, changed and removed by two users on the first two
\* maps, asked for before and after the maps are uploaded; an empty content
\* and a comment id that is not there are asked too
CommentTexts == {<<>>, <<97>>, <<98>>}
CommentIds == 1..(MaxComments + 1)

NextComments ==
    \/ Len(maps) < 2 /\ upload_map(1, PlainForm)
    \/ \E u \in {1, 2}, m \in {1, 2}, c \in CommentTexts :
           submit_comment(u, m, c)
    \/ \E u \in {1, 2}, m \in {1, 2}, k \in CommentIds, c \in CommentTexts :
           update_comment(u, m, k, c)
    \/ \E u \in {1, 2}, m \in {1, 2}, k \in CommentIds :
           delete_comment(u, m, k)

SpecComments == Init /\ [][NextComments]_vars

\* The export and import of configurations.
NextRoundtrip ==
    \/ \E c \in Configs, n \in Creators, d \in Descriptions :
           ExportJSON(c, n, d)
    \/ \E c \in Configs, n \in Creators, d \in Descriptions :
           ExportText(c, n, d)
    \/ ReencodeAsText
    \/ Import

SpecRoundtrip == Init /\ [][NextRoundtrip]_vars

\* uploads one after the other, and a client that lists the catalog between
\* them
NextList ==
    \/ \E f \in Forms : upload_map(f.uploader, f)
    \/ ClientStarts
    \/ ClientRepeats
    \/ ClientTurnsPage
    \/ ClientLeaves

SpecList == Init /\ [][NextList]_vars

\* generation_params as json.loads yields it (lines 100-102): any JSON
\* object, with or without the keys size and player_count, and with values
\* inside and outside the ranges schemas.MapGenerationParams names
GenerationParams ==
    {<<>>}
    \cup {[size |-> s] : s \in {100, 512, 4096, 8192}}
    \cup {[player_count |-> n] : n \in {0, 1, 32}}
    \cup {[size |-> s, player_count |-> n] :
              s \in {100, 512, 4096, 8192}, n \in {0, 1, 32}}

UploadForms ==
    {[PlainForm EXCEPT !.generation_data = g] : g \in GenerationParams}

\* uploads of any generation parameters, one after the other
NextUpload == \E f \in UploadForms : upload_map(f.uploader, f)

SpecUpload == Init /\ [][NextUpload]_vars

(***************************************************************************)
(* Properties.                                                             *)
(***************************************************************************)
RECURSIVE LedgerTotal(_)
\* the sum of the rating values of a set of rows of the ledger
LedgerTotal(ids) ==
    IF ids = {} THEN 0
    ELSE LET i == CHOOSE x \in ids : TRUE
         IN RowValue(i) + LedgerTotal(ids \ {i})

\* avg (in hundredths) is total / n rounded to 2 decimal places: no multiple
\* of 0.01 is nearer to total / n
IsMeanRounded(avg, total, n) ==
    LET d == 100 * total - avg * n
    IN  IF d >= 0 THEN 2 * d <= n ELSE 2 * (0 - d) <= n

\* the cached statistics of map m are those of its rows in the ledger
StatsMatchLedger(m) ==
    LET rows == RatingsOfMap(m)
        n == Cardinality(rows)
    IN  /\ maps[m].rating_count = n
        /\ n = 0 => maps[m].average_rating = 0
        /\ n > 0 => IsMeanRounded(maps[m].average_rating, LedgerTotal(rows), n)

\* C1: when requests run one after the other, then between requests every
\* map's rating_count is the number of its Rating rows and its average_rating
\* is 0.0 without rows and else their mean rounded to 2 decimal places.
C1_StatsMatchLedgerBetweenRequests ==
    Quiet => \A m \in MapIds : StatsMatchLedger(m)

\* a map rated by three users whose mean is not a multiple of 0.01
C1_Witness ==
    /\ Quiet
    /\ \E m \in MapIds :
          /\ maps[m].rating_count = 3
          /\ (100 * LedgerTotal(RatingsOfMap(m))) % 3 # 0

\* C2: the ledger never holds two Rating rows of the same user for the same
\* map.
C2_OneRatingPerUserAndMap ==
    \A p \in DOMAIN ratings : Len(ratings[p]) <= 1

\* C3: after two submissions by two different users for the same map have
\* both completed, the map's cached statistics are those of its two rows.
C3_NoLostAggregateUpdate ==
    \A m \in MapIds :
        \A u1, u2 \in Users :
            (/\ Quiet
             /\ writes = 2
             /\ u1 # u2
             /\ Len(ratings[<<u1, m>>]) = 1
             /\ Len(ratings[<<u2, m>>]) = 1)
            => StatsMatchLedger(m)

\* C4: when all downloads have completed, a map's download_count is the
\* number of downloads of it that were served.
C4_NoLostDownload ==
    Quiet => \A m \in MapIds : maps[m].download_count = served[m]

\* C5: a map's rating_count is never greater than the number of distinct
\* users who have rated it.
C5_CountAtMostDistinctRaters ==
    \A m \in MapIds :
        maps[m].rating_count
            <= Cardinality({u \in Users : ratings[<<u, m>>] # <<>>})

WalkDone ==
    /\ walk # NoWalk
    /\ resp.status = 200
    /\ QueryOf(resp.args) = walk.query
    /\ walk.page = resp.total_pages

\* C7: the pages 1..total_pages of a query, put together, hold every map
\* the query selects exactly once.
C7_PagesHoldEachItemOnce ==
    WalkDone =>
        /\ \A i, j \in DOMAIN walk.items :
               i # j => walk.items[i] # walk.items[j]
        /\ {walk.items[i] : i \in DOMAIN walk.items} = Filtered(walk.query)

\* C8: the same request asked twice of the same catalog is answered with the
\* same maps in the same order.
C8_SameRequestSameOrder ==
    [][(resp.status = 200 /\ resp'.status = 200 /\ resp'.args = resp.args)
          => resp'.items = resp.items]_vars

\* C9: total is the number of maps that satisfy the filters of the request,
\* whatever page and page size it asks for.
C9_TotalIsMatchCount ==
    resp.status = 200 =>
        \A p \in AskedPages, l \in 1..MaxLimit :
            resp.total = Cardinality({m \in MapIds :
                Matches(maps[m], [resp.args EXCEPT !.page = p, !.limit = l])})

\* a page past the last one of a filter that selects some maps but not all
C9_Witness ==
    /\ resp.status = 200
    /\ resp.total > 0
    /\ resp.total < Len(maps)
    /\ resp.page > resp.total_pages
    /\ resp.items = <<>>

\* C10: total_pages is 0 when total is 0, and else the least number of
\* pages of page_size maps that hold total maps.
C10_TotalPagesIsCeiling ==
    resp.status = 200 =>
        /\ resp.total = 0 => resp.total_pages = 0
        /\ resp.total > 0 =>
               /\ resp.total_pages * resp.page_size >= resp.total
               /\ (resp.total_pages - 1) * resp.page_size < resp.total

\* a total that page_size does not divide, on more than one page
C10_Witness ==
    /\ resp.status = 200
    /\ resp.total % resp.page_size # 0
    /\ resp.total_pages > 1

\* C11: a page p of size N holds the items at positions (p-1)*N+1 ..
\* min(p*N, total) of a sorted order of the filtered set, that is
\* min(N, max(0, total-(p-1)*N)) items: never more than N, and none when p is
\* past the last page.
C11_PageIsSliceOfSortedSet ==
    resp.status = 200 =>
        LET p == resp.page
            N == resp.page_size
            rest == resp.total - (p - 1) * N
            held == IF rest <= 0 THEN 0 ELSE IF rest < N THEN rest ELSE N
        IN  /\ Len(resp.items) = held
            /\ Len(resp.items) <= N
            /\ p > resp.total_pages => resp.items = <<>>
            /\ \E o \in Orderings(Filtered(resp.args), resp.args.sort_by,
                                   resp.args.sort_order) :
                   \A k \in 1..Len(resp.items) :
                       resp.items[k] = o[(p - 1) * N + k]

\* the scenario of the specification at the scale of the model: 3 maps with
\* terrain "islands" and pages of 2, page 2 holds the remaining 1
C11_Witness ==
    /\ resp.status = 200
    /\ resp.args.terrain_type = "islands"
    /\ resp.page = 2
    /\ resp.page_size = 2
    /\ resp.total = 3
    /\ resp.total_pages = 2
    /\ Len(resp.items) = 1

\* s occurs in text as a contiguous substring, letters compared without
\* regard to case and every character standing for itself
Contains(text, s) ==
    /\ text # NoText
    /\ \E i \in 0..(Len(text) - Len(s)) :
           \A k \in 1..Len(s) : Lower(text[i + k]) = Lower(s[k])

\* row satisfies every filter that request a supplies
SatisfiesFilters(row, a) ==
    /\ a.terrain_type # NoneStr => row.terrain_type = a.terrain_type
    /\ a.size # None => row.size = a.size
    /\ a.player_count # None => row.player_count = a.player_count
    /\ a.min_rating # None => row.average_rating >= a.min_rating
    /\ a.author # NoText => Contains(row.author, a.author)
    /\ a.creator_id # None => row.creator_id = a.creator_id

\* the maps of a response that holds the whole selection on its page
ItemsOf(r) == {r.items[k] : k \in DOMAIN r.items}

\* C12: the maps list_maps selects are exactly the maps that satisfy every
\* supplied filter; a filter left out constrains nothing and every supplied
\* value constrains.
C12_SelectsExactlyTheMatches ==
    (resp.status = 200 /\ resp.args.search = NoText) =>
        LET sel == {m \in MapIds : SatisfiesFilters(maps[m], resp.args)}
        IN  /\ resp.total = Cardinality(sel)
            /\ (resp.page = 1 /\ resp.total <= resp.page_size)
                   => ItemsOf(resp) = sel

\* C13: with a search string s, list_maps selects a map if and only if it
\* passes the filters and s occurs, letter case ignored and every character
\* of s taken literally, in its name or in its description.
C13_SearchIsLiteralSubstring ==
    (resp.status = 200 /\ resp.args.search # NoText) =>
        LET s == resp.args.search
            sel == {m \in MapIds :
                       /\ Matches(maps[m], [resp.args EXCEPT !.search = NoText])
                       /\ (Contains(maps[m].name, s)
                           \/ Contains(maps[m].description, s))}
        IN  /\ resp.total = Cardinality(sel)
            /\ (resp.page = 1 /\ resp.total <= resp.page_size)
                   => ItemsOf(resp) = sel

\* request a names a sort field or a sort direction that list_maps does not
\* know
BadSort(a) ==
    \/ a.sort_by \notin {"created_at", "rating", "downloads", "name"}
    \/ a.sort_order \notin {"asc", "desc"}

\* C14: a request with an unknown sort_by or sort_order is answered with an
\* invalid-argument error (400 when nothing else is wrong with it), never
\* with a page in some default order, and the step that answers it leaves
\* the catalog and the ledger as they are.
C14_BadSortIsRejected ==
    /\ [](  (resp # NoResp /\ BadSort(resp.args))
           => /\ resp.status \in {400, 422}
              /\ (ValidPaging(resp.args) /\ ValidFilters(resp.args))
                     => resp.status = 400
              /\ DOMAIN resp = {"status", "args"})
    /\ [][(resp' # NoResp /\ BadSort(resp'.args))
             => (maps' = maps /\ ratings' = ratings)]_vars

\* a known sort field with an unknown direction, asked of a catalog with maps
C14_Witness ==
    /\ resp.status = 400
    /\ resp.args.sort_by = "name"
    /\ resp.args.sort_order = "up"
    /\ Len(maps) > 1

\* C15: a request with page < 1, limit < 1 or limit > 100 is rejected and
\* answered with no page: neither page nor limit is clamped into range.
C15_BadPagingIsRejected ==
    (/\ resp # NoResp
     /\ (resp.args.page < 1 \/ resp.args.limit < 1 \/ resp.args.limit > 100))
    => /\ resp.status = 422
       /\ DOMAIN resp = {"status", "args"}

\* the largest page size is served and the next one is rejected, on a
\* catalog with maps to show
C15_Witness ==
    /\ resp.status = 422
    /\ resp.args.page = 1
    /\ resp.args.limit = 101
    /\ Len(maps) > 1

\* C16: a rating submitted for a map id that names no map is answered 404,
\* and the request goes no further: it adds no Rating row and changes no
\* map's cached statistics.
C16_MissingMapIsNotFound ==
    /\ [][\A w \in Workers :
            (/\ writes' = writes + 1
             /\ req'[w].user # None
             /\ req'[w].value \in 1..5
             /\ req'[w].map \notin MapIds)
            => /\ req'[w].op = "404"
               /\ pc'[w] = "idle"
               /\ ratings' = ratings
               /\ maps' = maps]_vars
    /\ [](\A w \in Workers : pc[w] # "idle" => req[w].map \in MapIds)

\* a rating for a missing map was answered 404 while the catalog holds a
\* rated map
C16_Witness ==
    /\ \E w \in Workers : req[w].op = "404" /\ req[w].user # None
    /\ \E m \in MapIds : maps[m].rating_count > 0
    /\ Quiet

\* C17: a rating whose value is not one of 1..5 is rejected before any
\* write, the ledger and the cached statistics stay as they are, and so
\* every Rating row's value is in 1..5 in every reachable state.
C17_BadValueIsRejected ==
    /\ [][\A w \in Workers :
            (/\ writes' = writes + 1
             /\ req'[w].user # None
             /\ req'[w].value \notin 1..5)
            => /\ req'[w].op = "422"
               /\ pc'[w] = "idle"
               /\ ratings' = ratings
               /\ maps' = maps]_vars
    /\ [](\A q \in DOMAIN ratings :
            \A k \in DOMAIN ratings[q] : ratings[q][k] \in 1..5)
    /\ [](\A w \in Workers : req[w].op = "rate" => req[w].value \in 1..5)

\* the value 6 was rejected while the ledger holds a row of the least and a
\* row of the greatest value
C17_Witness ==
    /\ \E w \in Workers : req[w].op = "422" /\ req[w].value = 6
    /\ \E q \in DOMAIN ratings : \E k \in DOMAIN ratings[q] : ratings[q][k] = 1
    /\ \E q \in DOMAIN ratings : \E k \in DOMAIN ratings[q] : ratings[q][k] = 5

\* C18: a download that succeeds adds exactly 1 to the map's download_count
\* and to no other, and a download answered 404, because the map or its
\* file is not there, leaves every download_count as it is.
C18_CountedIffDownloaded ==
    /\ [][\A w \in Workers :
            (pc[w] = "download_write" /\ req'[w].op = "200")
            => \A m \in MapIds :
                   maps'[m].download_count
                       = maps[m].download_count + (IF m = req[w].map THEN 1 ELSE 0)]_vars
    /\ [][\A w \in Workers :
            (/\ pc[w] = "download_write" \/ writes' = writes + 1
             /\ req'[w].op = "404"
             /\ req'[w].user = None)
            => \A m \in MapIds :
                   maps'[m].download_count = maps[m].download_count]_vars

\* C19: in every state, also in the middle of submissions and however
\* concurrent submissions interleave, every map has 0 <= average_rating <= 5
\* and average_rating is 0 exactly when rating_count is 0.
C19_AverageInRange ==
    \A m \in MapIds :
        /\ maps[m].average_rating >= 0
        /\ maps[m].average_rating <= 500
        /\ maps[m].average_rating = 0 <=> maps[m].rating_count = 0

\* a submission that loaded the map without ratings is about to write its
\* statistics over those a concurrent submission has written meanwhile
C19_Witness ==
    /\ pc[1] = "stats_write"
    /\ req[1].loaded.rating_count = 0
    /\ req[1].count = 1
    /\ maps[req[1].map].rating_count = 2
    /\ maps[req[1].map].average_rating > 0

\* C20: whatever generation_params the uploads carry, every map in the
\* catalog has player_count >= 1 and a size in 512..4096: an upload whose
\* parameters are outside these ranges creates no map.
C20_StoredParamsInRange ==
    \A m \in MapIds :
        /\ maps[m].player_count >= 1
        /\ maps[m].size >= 512
        /\ maps[m].size <= 4096

\* C21: the listing embeds of each map's owner the id and the username only:
\* the response is the same for two users tables that differ only in email
\* addresses and password hashes, and no field of an item carries either.
C21_ListingHidesOwnerSecrets ==
    resp.status = 200 =>
        /\ \A U1, U2 \in Accounts :
               MapListResponseOf(resp, U1) = MapListResponseOf(resp, U2)
        /\ \A U \in Accounts : \A k \in DOMAIN resp.items :
               LET item == MapListResponseOf(resp, U).items[k]
                   owner == U[maps[resp.items[k]].creator_id]
               IN  /\ DOMAIN item.creator = {"id", "username"}
                   /\ item.creator.id = owner.id
                   /\ item.creator.username = owner.username
                   /\ {item.creator.username, item.terrain_type}
                          \cap {owner.email, owner.hashed_password} = {}
                   /\ {"email", "hashed_password"} \cap DOMAIN item = {}

\* a page that holds maps of two owners
C21_Witness ==
    /\ resp.status = 200
    /\ \E j, k \in DOMAIN resp.items :
           maps[resp.items[j]].creator_id # maps[resp.items[k]].creator_id

\* C22: a rating submission whose write-back of the statistics fails ends
\* with an error, and one that ends with success leaves the map's cached
\* statistics equal to those of its rows in the ledger.
C22_SuccessMeansStatsWritten ==
    [][\A w \in Workers :
          (pc[w] = "stats_write" /\ pc'[w] = "idle")
          => /\ req'[w].op \in {"200", "500"}
             /\ req'[w].op = "200"
                    => \A m \in MapIds : m = req[w].map => StatsMatchLedger(m)']_vars

\* C27: a rating submission that ends with an error (404, 422, or 500 for a
\* commit that failed) has written nothing: its last step leaves the ledger
\* and the maps as they are, and it has not inserted its Rating row before.
C27_ErrorMeansNothingWritten ==
    [][\A w \in Workers :
          (/\ pc'[w] = "idle"
           /\ req'[w].op \in {"404", "422", "500"}
           /\ \/ pc[w] \in {"rate_write", "stats_write"}
              \/ writes' = writes + 1 /\ req'[w].user # None)
          => /\ ratings' = ratings
             /\ maps' = maps
             /\ pc[w] # "idle" => req[w].branch # "insert"]_vars

\* worker w takes the step, the last of its request for map m, from
\* position at
Ends(w, at, m) == pc[w] = at /\ pc'[w] = "idle" /\ req[w].map = m

\* C23: rating_count and average_rating of a map change only in the
\* write-back of a rating submitted for that map, download_count only in a
\* download of that map, and a step of list_maps or get_map_detail changes
\* no map and no Rating row.
C23_StatsChangeOnlyInOwnOperation ==
    [][/\ \A m \in MapIds :
            /\ (\/ maps'[m].rating_count # maps[m].rating_count
                \/ maps'[m].average_rating # maps[m].average_rating)
               => \E w \in Workers : Ends(w, "stats_write", m)
            /\ maps'[m].download_count # maps[m].download_count
               => \E w \in Workers : Ends(w, "download_write", m)
       /\ (resp' # resp /\ resp' # NoResp)
            => maps' = maps /\ ratings' = ratings]_vars

\* the client reads a map that was downloaded, while a rating of it is about
\* to write the statistics
C23_Witness ==
    /\ resp.status = 200
    /\ "map_id" \in DOMAIN resp
    /\ resp.stats.download_count = 1
    /\ \E w \in Workers : pc[w] = "stats_write" /\ req[w].map = resp.map_id

\* C24: the steps of a rating submission or a download for map A leave the
\* Rating rows, rating_count, average_rating and download_count of every
\* other map B as they are, whatever requests for B run at the same time.
C24_OtherMapsUntouched ==
    [][/\ \A w \in Workers :
            (pc[w] # "idle" /\ pc'[w] # pc[w])
            => \A B \in MapIds \ {req[w].map} :
                   /\ maps'[B] = maps[B]
                   /\ \A u \in Users : ratings'[<<u, B>>] = ratings[<<u, B>>]
       /\ writes' # writes => maps' = maps /\ ratings' = ratings]_vars

\* a rating of map 1 is about to write its statistics while a download of
\* map 2 is about to write its count
C24_Witness ==
    /\ pc[1] = "stats_write" /\ req[1].map = 1
    /\ pc[2] = "download_write" /\ req[2].map = 2
    /\ Len(maps) >= 2

\* C25: once a document written by the JSON export, by the text export or
\* by the JSON export encoded as base64 is read back, the import has not
\* refused it, every field of the original configuration is in the
\* imported config with an equal value, and the imported creator and
\* description equal the ones given to the export, the empty ones included.
C25_RoundtripIsIdentity ==
    exchange.stage \in {"imported", "refused"} =>
        /\ exchange.stage = "imported"
        /\ Member(exchange.imported, KeyConfig)[1] = "o"
        /\ compare_configs(exchange.config,
                           Member(exchange.imported, KeyConfig)[2]) = {}
        /\ Member(exchange.imported, KeyMetadata)[1] = "o"
        /\ compare_configs(<< <<KeyCreator, JStr(exchange.creator)>>,
                              <<KeyDescription, JStr(exchange.description)>> >>,
                           Member(exchange.imported, KeyMetadata)[2]) = {}

\* C26: when the map of a rating submission is deleted after the ledger
\* write and before the recomputation has written, the recomputation does
\* nothing and the submission does not fail.
C26_DeletedMapIsNoError ==
    [][\A w \in Workers :
          (/\ pc[w] \in {"stats_load", "stats_read", "stats_write"}
           /\ Gone(w)
           /\ pc'[w] = "idle")
          => req'[w].op = "200"]_vars

\* C28: ratings are never deleted, so no step makes a map's rating_count
\* less than it was, however concurrent submissions interleave.
C28_RatingCountNeverDecreases ==
    [][\A m \in MapIds : maps'[m].rating_count >= maps[m].rating_count]_vars

\* the two requests served so far are a download of map m and the first
\* rating of map m, and both are complete
OneDownloadOneRating(m) ==
    /\ Quiet
    /\ writes = 2
    /\ served[m] = 1
    /\ Cardinality(RatingsOfMap(m)) = 1

\* C29: however one download and one rating submission of the same map
\* interleave, after both the map's download_count is 1 more than before
\* and its rating_count and average_rating are those of the submitted
\* rating: neither write takes back the other's.
C29_DownloadAndRatingBothKept ==
    \A m \in MapIds :
        OneDownloadOneRating(m)
        => /\ maps[m].download_count = 1
           /\ maps[m].rating_count = 1
           /\ \A i \in RatingsOfMap(m) :
                  maps[m].average_rating = 100 * RowValue(i)

\* the download and the rating were served by different workers
C29_Witness ==
    /\ Len(maps) >= 1
    /\ OneDownloadOneRating(1)
    /\ req[1].op = "200" /\ req[1].branch = "insert"
    /\ req[2].op = "200" /\ req[2].branch = "none"

\* C30: update_comment and delete_comment asked by a user who is not the
\* comment's author are answered 403, and those that name a map that is not
\* the comment's map 404; both leave the comments as they are, so the
\* content of every comment there is was last written by its author.
C30_OnlyAuthorChangesComment ==
    /\ [][(resp'.status # 0 /\ resp'.op \in {"update_comment", "delete_comment"})
           => LET k == resp'.comment_id
              IN  (k \in DOMAIN comments /\ comments[k].present
                   /\ resp'.status # 422)
                  => /\ comments[k].map_id # resp'.map_id
                        => resp'.status = 404 /\ comments' = comments
                     /\ (/\ comments[k].map_id = resp'.map_id
                         /\ comments[k].user_id # resp'.user)
                        => resp'.status = 403 /\ comments' = comments]_vars
    /\ [](\A k \in DOMAIN comments :
             comments[k].present => comments[k].written_by = comments[k].user_id)

\* a user was refused the removal of another user's comment, which its
\* author has changed before, while another comment was removed by its author
C30_Witness ==
    /\ resp.status = 403
    /\ resp.op = "delete_comment"
    /\ comments[resp.comment_id].present
    /\ comments[resp.comment_id].content = <<98>>
    /\ \E j \in DOMAIN comments : ~comments[j].present

====
